---- MODULE Spec2Model ----
(***************************************************************************)
(* Model of scripts/txt2img.py: the prompt batcher, the safety             *)
(* substitution, the watermark switch, and the sample-saving loop of       *)
(* main() with its output counter and its output file names.               *)
(*                                                                         *)
(* The diffusion model, the sampler, the safety classifier and the         *)
(* watermark codec are external: each is modelled by the shape of what it  *)
(* returns, and the outcome the script cannot determine (which images the  *)
(* classifier flags, whether the sampler accepts a short conditioning      *)
(* batch) is a nondeterministic choice.                                    *)
(***************************************************************************)
EXTENDS Integers, Sequences, FiniteSets, TLC

\* ------------------------------------------------------------------ bounds
MaxLines   == 3    \* lines of the prompts file (main)
MaxSamples == 2    \* --n_samples
MaxIter    == 2    \* --n_iter
MaxRuns    == 2    \* runs of the script into the same output directory
MaxDim     == 4    \* --W, --H
MaxF       == 2    \* --f
MaxResize  == 2    \* --resize_factor
MaxLen     == 4    \* length of the sequence handed to chunk (unit harness)
MaxSize    == 3    \* size handed to chunk (unit harness)

\* ------------------------------------------------------- program constants
SamplePad   == 5   \* {base_count:05}
GridPad     == 4   \* {grid_count:04}
RGBChannels == 3   \* .convert("RGB")
Rick        == 0   \* content id of assets/rick.jpeg (samples are 1, 2, ...)

VARIABLES
    env,               \* what the run finds around it: platform, placeholder asset, decoder channels
    opt,               \* the parsed command line
    fs,                \* files of the output directory: path -> [w, h]
    dirs,              \* directories of the output directory
    pc,                \* position of main() (or of the unit harness)
    run,               \* number of the current run
    wm_encoder,
    data,              \* list of prompt batches
    n,                 \* outer loop index
    bi,                \* position of the inner loop in data
    prompts,
    uc,                \* rows of the unconditional conditioning (-1: None)
    c,                 \* rows of the conditioning
    x_samples_ddim,
    x_checked_image,
    has_nsfw_concept,
    si,                \* position of the save loop in x_checked_image_torch
    img,
    base_count,
    grid_count,
    all_samples,       \* len(all_samples)
    \* history variables
    base0,             \* base_count as initialised by this run
    existing0,         \* the files that existed when this run started
    written,           \* the sample files this run wrote
    n_writes,          \* number of sample-file writes of this run
    clobbered,         \* this run wrote to a path that already held a sample file
    safety,            \* trace of the last check_safety call
    checked_at,        \* base_count when check_safety ran for the current batch
    \* unit harness
    arg,
    ret

vars == << env, opt, fs, dirs, pc, run, wm_encoder, data, n, bi, prompts, uc, c,
           x_samples_ddim, x_checked_image, has_nsfw_concept, si, img,
           base_count, grid_count, all_samples, base0, existing0, written,
           n_writes, clobbered, safety, checked_at, arg, ret >>

mainVars == << env, opt, fs, dirs, run, wm_encoder, data, n, bi, prompts, uc, c,
               x_samples_ddim, x_checked_image, has_nsfw_concept, si, img,
               base_count, grid_count, all_samples, base0, existing0, written,
               n_writes, clobbered, safety, checked_at >>

Min(a, b) == IF a < b THEN a ELSE b

\* --------------------------------------------------------------- Python values
None == "None"

PyFalse == [is_list |-> FALSE, items |-> << >>]

PyList(s) == [is_list |-> TRUE, items |-> s]

\* bool(v) of a bool-or-list value
Truthy(v) == v.is_list /\ Len(v.items) > 0

\* ------------------------------------------------------------------- chunk
islice(it, size) == SubSeq(it, 1, Min(size, Len(it)))

RECURSIVE chunk_dropshort(_, _)
chunk_dropshort(it, size) ==
    LET g == islice(it, size)
    IN  IF Len(g) < size THEN << >>
        ELSE << g >> \o chunk_dropshort(SubSeq(it, Len(g) + 1, Len(it)), size)

\* iter(lambda: tuple(islice(it, size)), ()): groups are taken off the front
\* of the iterator until one comes back empty.
RECURSIVE chunk(_, _)
chunk(it, size) ==
    LET g == islice(it, size)
    IN  IF g = << >> THEN << >>
        ELSE << g >> \o chunk(SubSeq(it, Len(g) + 1, Len(it)), size)

\* ------------------------------------------------------------------ images
Image(src, h, w, ch) == [src |-> src, h |-> h, w |-> w, c |-> ch, order |-> "RGB", wm |-> 0]

Shape(x) == << x.h, x.w, x.c >>

\* cv2.cvtColor(np.array(img), cv2.COLOR_RGB2BGR): three channels out, swapped
cvtColorRGB2BGR(x) == [x EXCEPT !.order = "BGR", !.c = RGBChannels]

\* wm_encoder.encode(img, 'dwtDct')
encode(x) == [x EXCEPT !.wm = x.wm + 1]

\* img[:, :, ::-1]
ReverseChannels(x) == [x EXCEPT !.order = IF x.order = "BGR" THEN "RGB" ELSE "BGR"]

put_watermark_or(watermark_protection, image, encoder) ==
    IF watermark_protection # 0 \/ encoder # None
    THEN ReverseChannels(encode(cvtColorRGB2BGR(image)))
    ELSE image

put_watermark(watermark_protection, image, encoder) ==
    IF watermark_protection # 0 /\ encoder # None
    THEN ReverseChannels(encode(cvtColorRGB2BGR(image)))
    ELSE image

\* Image.open("assets/rick.jpeg").convert("RGB").resize((hwc[1], hwc[0])) as an array
Placeholder(hwc) == Image(Rick, hwc[1], hwc[2], RGBChannels)

\* [y, assertion failed]: every exception, the failed assertion included, is
\* caught and x is returned
load_replacement(x, asset_present) ==
    IF ~asset_present
    THEN [y |-> x, assert_failed |-> FALSE]
    ELSE LET y == Placeholder(Shape(x))
         IN  IF Shape(y) = Shape(x)
             THEN [y |-> y, assert_failed |-> FALSE]
             ELSE [y |-> x, assert_failed |-> TRUE]

check_safety_always(nsfw_filter_switch, x_image, flags, asset_present) ==
    [ x_checked_image  |-> [i \in 1..Len(x_image) |->
                              IF flags[i] THEN load_replacement(x_image[i], asset_present).y
                              ELSE x_image[i]],
      has_nsfw_concept |-> PyList(flags),
      classifier_called |-> TRUE,
      classified       |-> x_image,
      replaced         |-> {i \in 1..Len(x_image) : flags[i]},
      assert_failed    |-> {i \in 1..Len(x_image) :
                              flags[i] /\ load_replacement(x_image[i], asset_present).assert_failed} ]

\* flags is what the external classifier answers for the batch
check_safety(nsfw_filter_switch, x_image, flags, asset_present) ==
    IF nsfw_filter_switch
    THEN [ x_checked_image  |-> [i \in 1..Len(x_image) |->
                                   IF flags[i] THEN load_replacement(x_image[i], asset_present).y
                                   ELSE x_image[i]],
           has_nsfw_concept |-> PyList(flags),
           classifier_called |-> TRUE,
           classified       |-> x_image,
           replaced         |-> {i \in 1..Len(x_image) : flags[i]},
           assert_failed    |-> {i \in 1..Len(x_image) :
                                   flags[i] /\ load_replacement(x_image[i], asset_present).assert_failed} ]
    ELSE [ x_checked_image  |-> x_image,
           has_nsfw_concept |-> PyFalse,
           classifier_called |-> FALSE,
           classified       |-> x_image,
           replaced         |-> {},
           assert_failed    |-> {} ]

NoSafetyCall == check_safety(FALSE, << >>, << >>, FALSE)

\* ------------------------------------------------------------- file names
DigitChar == << "0", "1", "2", "3", "4", "5", "6", "7", "8", "9" >>

RECURSIVE Digits(_)
Digits(k) == IF k < 10 THEN << DigitChar[k + 1] >>
             ELSE Digits(k \div 10) \o << DigitChar[(k % 10) + 1] >>

\* f"{k:0<width>}"
ZeroPad(k, width) == [i \in 1..(width - Len(Digits(k))) |-> "0"] \o Digits(k)

\* f"<variant>\\{base_count:05}.png"
SampleName(variant, k) == << variant, "\\" >> \o ZeroPad(k, SamplePad) \o << ".png" >>

\* f"grid-{grid_count:04}.png"
GridName(k) == << "grid-" >> \o ZeroPad(k, GridPad) \o << ".png" >>

Separators(platform) == IF platform = "nt" THEN {"\\", "/"} ELSE {"/"}

RECURSIVE SplitPath(_, _)
SplitPath(s, seps) ==
    IF \E i \in 1..Len(s) : s[i] \in seps
    THEN LET i == CHOOSE k \in 1..Len(s) :
                      s[k] \in seps /\ \A j \in 1..(k - 1) : s[j] \notin seps
         IN  << SubSeq(s, 1, i - 1) >> \o SplitPath(SubSeq(s, i + 1, Len(s)), seps)
    ELSE << s >>

\* os.path.join(base, name): the components the platform sees in the result
os_path_join(base, name) == base \o SplitPath(name, Separators(env.platform))

outpath == << << "outdir" >> >>

sample_path == os_path_join(outpath, << "samples" >>)

VariantDir(variant) == os_path_join(sample_path, << variant >>)

SamplePath(variant, k) == os_path_join(sample_path, SampleName(variant, k))

\* os.listdir(d)
listdir(d, files, directories) ==
    {p \in (DOMAIN files) \cup directories :
        Len(p) = Len(d) + 1 /\ SubSeq(p, 1, Len(d)) = d}

WriteFile(files, p, rec) ==
    [q \in (DOMAIN files) \cup {p} |-> IF q = p THEN rec ELSE files[q]]

\* cv2.resize(cv2.imread(source), dsize=(width*resize_factor, height*resize_factor))
resize_image_square(source, width, height, resize_factor) ==
    [w |-> width * resize_factor, h |-> width * resize_factor]

resize_image(source, width, height, resize_factor) ==
    [w |-> width * resize_factor, h |-> height * resize_factor]

\* detailEnhance and edgePreservingFilter keep the size of what they read
improve_image(source) == [w |-> source.w, h |-> source.h]

\* ------------------------------------------------------------ initial state
NoArg == [it |-> << >>, size |-> 1, switch |-> 0, image |-> Image(1, 1, 1, RGBChannels), enc |-> None]

NoRet == [groups |-> << >>, image |-> Image(1, 1, 1, RGBChannels)]

NoImage == Image(1, 1, 1, RGBChannels)

\* the prompts file: line i holds prompt i; --prompt is prompt 0
FileLines(k) == [i \in 1..k |-> i]

\* the state of a process that has not run yet, in an output directory
RunLocalsReset ==
    /\ wm_encoder' = None
    /\ data' = << >>
    /\ n' = 0
    /\ bi' = 1
    /\ prompts' = << >>
    /\ uc' = -1
    /\ c' = 0
    /\ x_samples_ddim' = << >>
    /\ x_checked_image' = << >>
    /\ has_nsfw_concept' = PyFalse
    /\ si' = 1
    /\ img' = NoImage
    /\ base_count' = 0
    /\ grid_count' = 0
    /\ all_samples' = 0
    /\ base0' = 0
    /\ existing0' = {}
    /\ written' = {}
    /\ n_writes' = 0
    /\ clobbered' = FALSE
    /\ safety' = NoSafetyCall
    /\ checked_at' = 0

MainInitial(envs, opts) ==
    /\ env \in envs
    /\ opt \in opts
    /\ fs = << >>
    /\ dirs = {}
    /\ run = 1
    /\ wm_encoder = None
    /\ data = << >>
    /\ n = 0
    /\ bi = 1
    /\ prompts = << >>
    /\ uc = -1
    /\ c = 0
    /\ x_samples_ddim = << >>
    /\ x_checked_image = << >>
    /\ has_nsfw_concept = PyFalse
    /\ si = 1
    /\ img = NoImage
    /\ base_count = 0
    /\ grid_count = 0
    /\ all_samples = 0
    /\ base0 = 0
    /\ existing0 = {}
    /\ written = {}
    /\ n_writes = 0
    /\ clobbered = FALSE
    /\ safety = NoSafetyCall
    /\ checked_at = 0

\* ----------------------------------------------------------------- main()
\* lines 345-431: parse, load, make the folders, read the counters
Setup ==
    /\ pc = "start"
    /\ wm_encoder' = "enc"
    /\ data' = IF ~opt.from_file
               THEN << [i \in 1..opt.n_samples |-> 0] >>
               ELSE chunk(FileLines(opt.n_lines), opt.n_samples)
    /\ dirs' = dirs \cup { outpath, sample_path, VariantDir("original"),
                           VariantDir("resized"), VariantDir("improved") }
    /\ base_count' = Cardinality(listdir(VariantDir("original"), fs, dirs'))
    /\ grid_count' = Cardinality(listdir(outpath, fs, dirs')) - 1
    /\ base0' = base_count'
    /\ existing0' = DOMAIN fs
    /\ n' = 0
    /\ bi' = 1
    /\ all_samples' = 0
    /\ pc' = "loop"
    /\ UNCHANGED << env, opt, fs, run, prompts, uc, c, x_samples_ddim, x_checked_image,
                    has_nsfw_concept, si, img, written, n_writes, clobbered, safety, checked_at, arg, ret >>

\* lines 439-446: the two loop heads and the conditioning of the next batch
NextPrompts ==
    /\ pc = "loop"
    /\ IF n >= opt.n_iter
       THEN /\ pc' = "grid"
            /\ UNCHANGED << n, bi, prompts, uc, c >>
       ELSE IF bi > Len(data)
       THEN /\ n' = n + 1
            /\ bi' = 1
            /\ pc' = "loop"
            /\ UNCHANGED << prompts, uc, c >>
       ELSE /\ prompts' = data[bi]
            /\ uc' = IF opt.scale_is_one THEN -1 ELSE opt.n_samples
            /\ c' = Len(data[bi])
            /\ pc' = "sample"
            /\ UNCHANGED << n, bi >>
    /\ UNCHANGED << env, opt, fs, dirs, run, wm_encoder, data, x_samples_ddim,
                    x_checked_image, has_nsfw_concept, si, img, base_count, grid_count,
                    all_samples, base0, existing0, written, n_writes, clobbered, safety, checked_at, arg, ret >>

\* the decoder gives back f pixels for each latent cell
DecodedSize(pixels, f) == (pixels \div f) * f

\* lines 447-461: sample batch_size latents of shape [C, H // f, W // f] and
\* decode them. The sampler is handed c rows of conditioning for batch_size
\* samples; what it does when the two differ is its own affair.
Sample ==
    /\ pc = "sample"
    /\ \/ /\ x_samples_ddim' = [i \in 1..opt.n_samples |->
                                  Image(i, DecodedSize(opt.H, opt.f),
                                        DecodedSize(opt.W, opt.f), env.out_ch)]
          /\ pc' = "check"
       \/ /\ c # opt.n_samples
          /\ pc' = "crashed"
          /\ UNCHANGED x_samples_ddim
    /\ UNCHANGED << env, opt, fs, dirs, run, wm_encoder, data, n, bi, prompts, uc, c,
                    x_checked_image, has_nsfw_concept, si, img, base_count, grid_count,
                    all_samples, base0, existing0, written, n_writes, clobbered, safety, checked_at, arg, ret >>

\* lines 463-465
CheckSafety ==
    /\ pc = "check"
    /\ \E flags \in [1..Len(x_samples_ddim) -> BOOLEAN] :
          LET r == check_safety(opt.nsfw_protection # 0, x_samples_ddim, flags,
                                env.asset_present)
          IN  /\ x_checked_image' = r.x_checked_image
              /\ has_nsfw_concept' = r.has_nsfw_concept
              /\ safety' = r
    /\ checked_at' = base_count
    /\ pc' = "checked"
    /\ UNCHANGED << env, opt, fs, dirs, run, wm_encoder, data, n, bi, prompts, uc, c,
                    x_samples_ddim, si, img, base_count, grid_count, all_samples,
                    base0, existing0, written, n_writes, clobbered,
                    arg, ret >>

\* lines 467-468: enter the save loop, or skip it
BeginSave ==
    /\ pc = "checked"
    /\ si' = 1
    /\ pc' = IF opt.skip_save THEN "append" ELSE "watermark"
    /\ UNCHANGED << env, opt, fs, dirs, run, wm_encoder, data, n, bi, prompts, uc, c,
                    x_samples_ddim, x_checked_image, has_nsfw_concept, img, base_count,
                    grid_count, all_samples, base0, existing0, written, n_writes,
                    clobbered, safety, checked_at, arg, ret >>

\* lines 469-471
Watermark ==
    /\ pc = "watermark"
    /\ img' = put_watermark(opt.watermark_protection, x_checked_image[si], wm_encoder)
    /\ pc' = "original"
    /\ UNCHANGED << env, opt, fs, dirs, run, wm_encoder, data, n, bi, prompts, uc, c,
                    x_samples_ddim, x_checked_image, has_nsfw_concept, si, base_count,
                    grid_count, all_samples, base0, existing0, written, n_writes,
                    clobbered, safety, checked_at, arg, ret >>

\* a write of a sample file, as the history variables see it
NoteWrite(p) ==
    /\ written' = written \cup {p}
    /\ n_writes' = n_writes + 1
    /\ clobbered' = (clobbered \/ p \in existing0 \/ p \in written)

SaveUnchanged ==
    UNCHANGED << env, opt, dirs, run, wm_encoder, data, n, bi, prompts, uc, c,
                 x_samples_ddim, x_checked_image, has_nsfw_concept, si, img,
                 base_count, grid_count, all_samples, base0, existing0,
                 safety, checked_at, arg, ret >>

\* line 472
SaveOriginal ==
    /\ pc = "original"
    /\ fs' = WriteFile(fs, SamplePath("original", base_count), [w |-> img.w, h |-> img.h])
    /\ NoteWrite(SamplePath("original", base_count))
    /\ pc' = "resize"
    /\ SaveUnchanged

\* lines 473-475; cv2.imread of a missing file gives None and cv2.resize raises
ResizeImage ==
    /\ pc = "resize"
    /\ IF SamplePath("original", base_count) \in DOMAIN fs
       THEN /\ fs' = WriteFile(fs, SamplePath("resized", base_count),
                               resize_image(fs[SamplePath("original", base_count)],
                                            opt.W, opt.H, opt.resize_factor))
            /\ NoteWrite(SamplePath("resized", base_count))
            /\ pc' = "improve"
       ELSE /\ pc' = "crashed"
            /\ UNCHANGED << fs, written, n_writes, clobbered >>
    /\ SaveUnchanged

\* lines 476-477
ImproveImage_nowrite ==
    /\ pc = "improve"
    /\ pc' = "count"
    /\ UNCHANGED << fs, written, n_writes, clobbered >>
    /\ SaveUnchanged

ImproveImage ==
    /\ pc = "improve"
    /\ IF SamplePath("resized", base_count) \in DOMAIN fs
       THEN /\ fs' = WriteFile(fs, SamplePath("improved", base_count),
                               improve_image(fs[SamplePath("resized", base_count)]))
            /\ NoteWrite(SamplePath("improved", base_count))
            /\ pc' = "count"
       ELSE /\ pc' = "crashed"
            /\ UNCHANGED << fs, written, n_writes, clobbered >>
    /\ SaveUnchanged

\* line 478, and the head of the save loop
Increment_twice ==
    /\ pc = "count"
    /\ base_count' = base_count + 2
    /\ IF si < Len(x_checked_image)
       THEN si' = si + 1 /\ pc' = "watermark"
       ELSE si' = si /\ pc' = "append"
    /\ UNCHANGED << env, opt, fs, dirs, run, wm_encoder, data, n, bi, prompts, uc, c,
                    x_samples_ddim, x_checked_image, has_nsfw_concept, img, grid_count,
                    all_samples, base0, existing0, written, n_writes, clobbered, safety, checked_at, arg, ret >>

Increment ==
    /\ pc = "count"
    /\ base_count' = base_count + 1
    /\ IF si < Len(x_checked_image)
       THEN si' = si + 1 /\ pc' = "watermark"
       ELSE si' = si /\ pc' = "append"
    /\ UNCHANGED << env, opt, fs, dirs, run, wm_encoder, data, n, bi, prompts, uc, c,
                    x_samples_ddim, x_checked_image, has_nsfw_concept, img, grid_count,
                    all_samples, base0, existing0, written, n_writes, clobbered, safety, checked_at, arg, ret >>

\* lines 480-481, and the step of the inner loop
AppendSamples ==
    /\ pc = "append"
    /\ all_samples' = IF opt.skip_grid THEN all_samples ELSE all_samples + 1
    /\ bi' = bi + 1
    /\ pc' = "loop"
    /\ UNCHANGED << env, opt, fs, dirs, run, wm_encoder, data, n, prompts, uc, c,
                    x_samples_ddim, x_checked_image, has_nsfw_concept, si, img,
                    base_count, grid_count, base0, existing0, written, n_writes,
                    clobbered, safety, checked_at, arg, ret >>

\* lines 483-499; torch.stack of an empty list raises
SaveGrid ==
    /\ pc = "grid"
    /\ IF opt.skip_grid
       THEN /\ pc' = "done"
            /\ UNCHANGED << fs, grid_count, img >>
       ELSE IF all_samples = 0
       THEN /\ pc' = "crashed"
            /\ UNCHANGED << fs, grid_count, img >>
       ELSE /\ img' = put_watermark(opt.watermark_protection,
                                    Image(Rick + 1, 1, 1, env.out_ch), wm_encoder)
            /\ fs' = WriteFile(fs, os_path_join(outpath, GridName(grid_count)),
                               [w |-> img'.w, h |-> img'.h])
            /\ grid_count' = grid_count + 1
            /\ pc' = "done"
    /\ UNCHANGED << env, opt, dirs, run, wm_encoder, data, n, bi, prompts, uc, c,
                    x_samples_ddim, x_checked_image, has_nsfw_concept, si, base_count,
                    all_samples, base0, existing0, written, n_writes, clobbered,
                    safety, checked_at, arg, ret >>

\* the script is started again on the same output directory
NewRun ==
    /\ pc \in {"done", "crashed"}
    /\ run < MaxRuns
    /\ run' = run + 1
    /\ pc' = "start"
    /\ RunLocalsReset
    /\ UNCHANGED << env, opt, fs, dirs, arg, ret >>

Next ==
    \/ Setup
    \/ NextPrompts
    \/ Sample
    \/ CheckSafety
    \/ BeginSave
    \/ Watermark
    \/ SaveOriginal
    \/ ResizeImage
    \/ ImproveImage
    \/ Increment
    \/ AppendSamples
    \/ SaveGrid
    \/ NewRun

\* --------------------------------------------------------- specifications
Environments(platforms, assets, channels) ==
    [platform : platforms, asset_present : assets, out_ch : channels]

\* the command lines: sizes, batching, switches
Options(sizes, iters, samples, files, saves, grids, scales, nsfws, wms) ==
    { [ W |-> sz[1], H |-> sz[2], f |-> sz[3], resize_factor |-> sz[4],
        n_iter |-> it, n_samples |-> ns,
        from_file |-> fl >= 0, n_lines |-> IF fl >= 0 THEN fl ELSE 0,
        skip_save |-> ss, skip_grid |-> sg, scale_is_one |-> sc,
        nsfw_protection |-> nf, watermark_protection |-> wp ] :
        sz \in sizes, it \in iters, ns \in samples, fl \in files, ss \in saves,
        sg \in grids, sc \in scales, nf \in nsfws, wp \in wms }

\* W, H, f, resize_factor with at least one latent cell each way
Sizes == { sz \in (1..MaxDim) \X (1..MaxDim) \X (1..MaxF) \X (1..MaxResize) :
             sz[1] >= sz[3] /\ sz[2] >= sz[3] }

DefaultSize == << 2, 2, 2, 2 >>

\* the prompts file read by --from-file: -1 is no file, k >= 0 a file of k lines
Files == (-1)..MaxLines

\* the pipeline: batching, iterations, repeated runs, both path conventions
Init ==
    /\ MainInitial(Environments({"nt", "posix"}, {TRUE}, {RGBChannels}),
                   Options({DefaultSize}, 1..MaxIter, 1..MaxSamples, Files, BOOLEAN,
                           BOOLEAN, {FALSE}, {0, 1}, {0, 1}))
    /\ pc = "start"
    /\ arg = NoArg
    /\ ret = NoRet

Spec == Init /\ [][Next]_vars

\* the safety check: placeholder asset present or not, decoders of 3 and 4 channels
InitSafety ==
    /\ MainInitial(Environments({"nt", "posix"}, BOOLEAN, {RGBChannels, RGBChannels + 1}),
                   Options({DefaultSize}, {1}, 1..MaxSamples, {-1}, BOOLEAN, BOOLEAN,
                           BOOLEAN, {0, 1}, {0, 1}))
    /\ pc = "start"
    /\ arg = NoArg
    /\ ret = NoRet

SpecSafety == InitSafety /\ [][Next]_vars

\* the sizes: every W, H, f, resize_factor of the bounds
InitResize ==
    /\ MainInitial(Environments({"nt", "posix"}, {TRUE}, {RGBChannels}),
                   Options(Sizes, {1}, 1..MaxSamples, {-1}, {FALSE}, BOOLEAN, {FALSE},
                           {0}, {0, 1}))
    /\ pc = "start"
    /\ arg = NoArg
    /\ ret = NoRet

SpecResize == InitResize /\ [][Next]_vars

\* ------------------------------------------------------------ unit harness
\* chunk and put_watermark called on their own, on every input of the bounds
Tokens == {"a", "b"}

UnitSequences == UNION { [1..k -> Tokens] : k \in 0..MaxLen }

UnitImages == { Image(1, h, w, ch) : h \in 1..2, w \in 1..2, ch \in {RGBChannels, RGBChannels + 1} }

InitUnit ==
    /\ MainInitial(Environments({"posix"}, {TRUE}, {RGBChannels}),
                   Options({DefaultSize}, {1}, {1}, {-1}, {FALSE}, {FALSE}, {FALSE}, {0}, {0}))
    /\ pc = "unit"
    /\ arg \in [it : UnitSequences, size : 1..MaxSize, switch : {0, 1},
                image : UnitImages, enc : {None, "enc"}]
    /\ ret = NoRet

CallChunk ==
    /\ pc = "unit"
    /\ ret' = [ret EXCEPT !.groups = chunk(arg.it, arg.size)]
    /\ pc' = "chunked"
    /\ UNCHANGED << mainVars, arg >>

CallPutWatermark ==
    /\ pc = "unit"
    /\ ret' = [ret EXCEPT !.image = put_watermark(arg.switch, arg.image, arg.enc)]
    /\ pc' = "watermarked"
    /\ UNCHANGED << mainVars, arg >>

NextUnit == CallChunk \/ CallPutWatermark

SpecUnit == InitUnit /\ [][NextUnit]_vars

\* ------------------------------------------------------------------ claims
RECURSIVE Flatten(_)
Flatten(groups) == IF groups = << >> THEN << >> ELSE Head(groups) \o Flatten(Tail(groups))

CeilDiv(a, b) == (a + b - 1) \div b

\* C1: chunk(sequence, B) of a sequence of length N >= 0, B >= 1, yields
\* ceil(N/B) groups, every group but the last of exactly B elements, the last
\* one non-empty, the groups concatenated being the input; an empty input
\* yields no group.
C1_ChunkGroups ==
    pc = "chunked" =>
        LET g == ret.groups
            N == Len(arg.it)
            B == arg.size
        IN  /\ Len(g) = CeilDiv(N, B)
            /\ \A i \in 1..(Len(g) - 1) : Len(g[i]) = B
            /\ Len(g) > 0 => Len(g[Len(g)]) \in 1..B
            /\ Flatten(g) = arg.it
            /\ N = 0 => g = << >>

\* a chunking whose last group is short, after at least one full group
C1_Witness ==
    /\ pc = "chunked"
    /\ Len(ret.groups) >= 2
    /\ Len(ret.groups[Len(ret.groups)]) < arg.size

\* C2: with the safety switch off, check_safety returns the batch it was
\* given, unchanged, with a falsy flag, and neither the classifier nor the
\* placeholder substitution is invoked.
C2_SafetyOffIsIdentity ==
    (pc = "checked" /\ opt.nsfw_protection = 0) =>
        /\ x_checked_image = x_samples_ddim
        /\ ~Truthy(has_nsfw_concept)
        /\ has_nsfw_concept = PyFalse
        /\ ~safety.classifier_called
        /\ safety.replaced = {}

C2_Witness ==
    /\ pc = "checked"
    /\ opt.nsfw_protection = 0
    /\ Len(x_samples_ddim) >= 2
    /\ x_checked_image = x_samples_ddim

\* C3: put_watermark returns its input image unchanged whenever the switch is
\* off or no encoder is supplied; the encoder is invoked only when the switch
\* is on and an encoder is present.
C3_WatermarkOffIsIdentity ==
    pc = "watermarked" =>
        /\ (arg.switch = 0 \/ arg.enc = None) => ret.image = arg.image
        /\ ret.image.wm # arg.image.wm => (arg.switch # 0 /\ arg.enc # None)

\* the switch is on, no encoder is supplied, and the image comes back as given
C3_Witness ==
    /\ pc = "watermarked"
    /\ arg.switch # 0
    /\ arg.enc = None
    /\ ret.image = arg.image

\* C4 as stated: at the end of a run the counter's increase over its initial
\* value equals the number of files the run wrote (the sample files; the
\* grid image is left out of the count).
C4_CounterMatchesFilesWritten ==
    pc = "done" => base_count - base0 = n_writes

\* C4 as amended: once initialised the counter changes only by +1 steps, and
\* at the end of a run its increase equals the number of samples saved, each
\* of which wrote three files (original, resized, improved).
C4_CounterMatchesSamplesSaved ==
    [][ /\ (pc # "start" /\ pc' # "start") =>
              (base_count' = base_count \/ base_count' = base_count + 1)
        /\ pc' = "done" =>
              /\ 3 * (base_count' - base0') = n_writes'
              /\ Cardinality(written') = n_writes'
              /\ \A k \in base0'..(base_count' - 1) :
                    SamplePath("original", k) \in written' ]_vars

\* a run that saved two samples or more has ended
C4_Witness ==
    /\ pc = "done"
    /\ base_count - base0 >= 2
    /\ n_writes = 3 * (base_count - base0)

\* C5: with the safety switch on, after check_safety every flagged image is
\* the placeholder resized to that image's dimensions and every other image
\* is as the classifier returned it.
C5_FlaggedAreReplaced ==
    (pc = "checked" /\ opt.nsfw_protection # 0) =>
        \A i \in 1..Len(x_checked_image) :
            IF has_nsfw_concept.items[i]
            THEN x_checked_image[i] = Placeholder(Shape(safety.classified[i]))
            ELSE x_checked_image[i] = safety.classified[i]

\* C6: every prompt batch the sampling loop processes has exactly n_samples
\* prompts, so the rows of conditioning equal the sampler's batch size and
\* the rows of the unconditional conditioning.
C6_BatchHasNSamples ==
    pc = "sample" =>
        /\ Len(prompts) = opt.n_samples
        /\ c = opt.n_samples
        /\ uc # -1 => uc = c

\* C7: no path a run writes held a sample file when the run started, and no
\* path is written twice in a run.
C7_NoSampleOverwritten == ~clobbered

SaveSteps == {"watermark", "original", "resize", "improve", "count"}

AllVariants(k) ==
    /\ SamplePath("original", k) \in DOMAIN fs
    /\ SamplePath("resized", k) \in DOMAIN fs
    /\ SamplePath("improved", k) \in DOMAIN fs

\* C8 as stated: the resized variant has the width and the height of the
\* original it was resized from, each multiplied by resize_factor.
C8_ResizedIsOriginalScaled ==
    pc \in {"improve", "count"} =>
        LET o == fs[SamplePath("original", base_count)]
            r == fs[SamplePath("resized", base_count)]
        IN  r.w = o.w * opt.resize_factor /\ r.h = o.h * opt.resize_factor

\* C8 as amended: the resized variant is W*resize_factor wide and
\* H*resize_factor high; that is the original's width and height multiplied
\* by resize_factor when f divides W and H.
C8_ResizedIsRequestedScaled ==
    pc \in {"improve", "count"} =>
        LET o == fs[SamplePath("original", base_count)]
            r == fs[SamplePath("resized", base_count)]
        IN  /\ r.w = opt.W * opt.resize_factor
            /\ r.h = opt.H * opt.resize_factor
            /\ (opt.W % opt.f = 0 /\ opt.H % opt.f = 0) =>
                  (r.w = o.w * opt.resize_factor /\ r.h = o.h * opt.resize_factor)

\* a resized file of a non-square request that f divides, scaled by more than 1
C8_Witness ==
    /\ pc = "improve"
    /\ opt.W % opt.f = 0
    /\ opt.H % opt.f = 0
    /\ opt.W # opt.H
    /\ opt.f > 1
    /\ opt.resize_factor > 1
    /\ fs[SamplePath("resized", base_count)].w
          = fs[SamplePath("original", base_count)].w * opt.resize_factor

\* the order of one sample's steps, and what exists at each of them
C9_SampleOrder ==
    /\ pc = "original" =>
          img = put_watermark(opt.watermark_protection, x_checked_image[si], wm_encoder)
    /\ pc \in {"watermark", "original"} =>
          \A v \in {"original", "resized", "improved"} :
              SamplePath(v, base_count) \notin written
    /\ pc = "resize" =>
          /\ SamplePath("original", base_count) \in written
          /\ SamplePath("resized", base_count) \notin written
    /\ pc = "improve" =>
          /\ SamplePath("resized", base_count) \in written
          /\ SamplePath("improved", base_count) \notin written
    /\ pc = "count" => SamplePath("improved", base_count) \in written
    /\ pc \notin {"start", "unit"} =>
          \A k \in base0..(base_count - 1) :
              /\ AllVariants(k)
              /\ \A v \in {"original", "resized", "improved"} : SamplePath(v, k) \in written

\* C9 as stated: every step of a sample, the safety check included, happens
\* under the one counter value of that sample, in the fixed order.
C9_StepsUnderOneCounter ==
    /\ C9_SampleOrder
    /\ pc \in SaveSteps => checked_at = base_count

\* C9 as amended: the safety check runs once for the whole batch, before the
\* first sample of the batch is saved; then, for each sample in turn under one
\* counter value k: watermark, write of original k, resize into resized k,
\* enhancement into improved k, and only then the counter moves to k+1.
C9_StepsAfterBatchCheck ==
    /\ C9_SampleOrder
    /\ pc \in SaveSteps =>
          /\ safety.x_checked_image = x_checked_image
          /\ base_count = checked_at + (si - 1)

\* the second sample of a batch has all its variants written
C9_Witness ==
    /\ pc = "count"
    /\ si = 2
    /\ checked_at < base_count
    /\ AllVariants(base_count)

\* C10: an image whose replacement failed the shape assertion is never saved:
\* the failure ends the run.
C10_AssertionFailureEndsRun ==
    ~(pc \in {"resize", "improve", "count"} /\ si \in safety.assert_failed)

====
